---- MODULE Spec2Model ----
(***************************************************************************)
(* The $.couch client of src/src/zepto.touchdb.js.                          *)
(*                                                                          *)
(* Spec models one change-feed subscription, the handle returned by         *)
(* $.couch.db(name).changes(since, options).  Its closure variables (since, *)
(* active, timeout, listeners) are the state; the requests handed to ajax   *)
(* and the timers handed to setTimeout are kept until they complete or      *)
(* fire.  The variable log is a history of what the subscription did.       *)
(*                                                                          *)
(* SpecPair models two subscriptions created one after the other, with the  *)
(* same options object or with two; all of their state is in the variable   *)
(* pair.  SpecQuery models the query string getChangesSince builds with     *)
(* encodeOptions, SpecAjax a call of a stateless operation through the      *)
(* private ajax helper up to its completion, SpecUuid the calls of newUUID  *)
(* on the shared uuidCache, and SpecEncode a call of encodeDocId or of      *)
(* encodeOptions; the variable call holds the call that is followed.  Each  *)
(* specification leaves the variables of the others at their idle values.   *)
(***************************************************************************)
EXTENDS Integers, Sequences, FiniteSets

VARIABLES since, active, timeout, listeners, requests, timers, log, pair, uuidCache, call

vars == <<since, active, timeout, listeners, requests, timers, log, pair, uuidCache, call>>

(* ------------------------------ bounds --------------------------------- *)

\* requests the subscription may issue in one behaviour
MaxRequests == 3

\* listeners that may be registered with onChange
MaxListeners == 2

\* largest sequence number the server reports
MaxSeq == 1

\* stop events after which the caller makes no further call of stop()
MaxStops == 2

\* requests two subscriptions may issue together in one behaviour
MaxPairRequests == 4

\* listeners that may be registered on each of two subscriptions
MaxPairListeners == 1

(* ----------------------------- values ---------------------------------- *)

\* the JavaScript value undefined, for a start cursor that was not supplied
Undefined == -1

Seqs == 0 .. MaxSeq

\* the since argument of db.changes(since, options)
StartCursors == Seqs \cup {Undefined}

\* what a caller-supplied listener does when it is invoked with a batch
ListenerKinds == {"plain", "stopper", "thrower"}

\* var timeout = 100
BaseTimeout == 100

\* options = $.extend({successStatus: 200}, options)
successStatus == 200

\* heartbeat : 10 * 1000
heartbeat == 10 * 1000

\* what the transport hands to complete: the status, whether
\* JSON.parse(req.responseText) succeeds and whether the decoded body has an
\* error field (resp.error); seq is the value of the field last_seq /
\* update_seq of the decoded body and cursor the sequence number the server
\* reports in it
Responses ==
  {[status |-> successStatus, parses |-> TRUE, error |-> FALSE, seq |-> n, cursor |-> n] :
     n \in Seqs}
    \cup [status : {500}, parses : {TRUE}, error : BOOLEAN, seq : {0}, cursor : {0}]
    \cup [status : {successStatus, 0}, parses : {FALSE}, error : {FALSE}, seq : {0}, cursor : {0}]

\* a successful reply of _changes that reports its cursor, the newest
\* sequence number, under another name than last_seq: resp.last_seq is
\* undefined
RenamedCursor ==
  {[status |-> successStatus, parses |-> TRUE, error |-> FALSE, seq |-> Undefined,
    cursor |-> MaxSeq]}

\* the replies the server may give to a poll
FeedResponses == Responses \cup RenamedCursor

Ev(e, x, y) == [ev |-> e, a |-> x, b |-> y]

\* the request built by getChangesSince / db.info
PollRequest(s) == [kind |-> "poll", since |-> s, feed |-> "longpoll", heartbeat |-> heartbeat]

InfoRequest == [kind |-> "info", since |-> Undefined, feed |-> "none", heartbeat |-> 0]

RemoveAt(s, i) == SubSeq(s, 1, i - 1) \o SubSeq(s, i + 1, Len(s))

Count(e) == Cardinality({i \in 1 .. Len(log) : log[i].ev = e})

Issued == Count("poll") + Count("info")

(* ------------------------- pieces of the code -------------------------- *)

\* a test that only null fails: if (since !== null)
TruthyAlways(v) == TRUE

\* if (since) { getChangesSince(); } else { db.info(...) }
Truthy(v) == v # Undefined /\ v # 0

\* complete without the return that ends the catch block: a body that does
\* not decode falls through to the test of the status
AjaxOutcomeStatusOnly(resp, hasSuccess, hasError) ==
  IF resp.status = successStatus
    THEN (IF hasSuccess THEN "success" ELSE "none")
    ELSE (IF hasError THEN "error" ELSE "throw")

\* the complete callback of ajax: which handler runs for a response
AjaxOutcome(resp, hasSuccess, hasError) ==
  IF ~resp.parses
    THEN (IF hasError THEN "error" ELSE "throw")
    ELSE IF resp.status = successStatus
      THEN (IF hasSuccess THEN "success" ELSE "none")
      ELSE (IF hasError THEN "error" ELSE "throw")

\* options.success without the reset of the retry delay
SuccessTimeoutKept(t) == t

\* timeout = 100 at the top of options.success
SuccessTimeout(t) == BaseTimeout

\* options.success without the test of active
SuccessHandlesAlways(act) == TRUE

\* if (active) in options.success
SuccessHandles(act) == act

\* a cursor that only moves forward: since = Math.max(since, resp.last_seq)
NewCursorMax(cur, resp) == IF resp.seq > cur THEN resp.seq ELSE cur

\* since = resp.last_seq
NewCursor(cur, resp) == resp.seq

\* if (active) in options.error
ErrorRetries(act) == act

\* a retry delay that grows by the base value instead of doubling
BackoffLinear(t) == t + BaseTimeout

\* timeout = timeout * 2
Backoff(t) == t * 2

\* a request that asks for the changes after the next sequence
RequestSinceNext(cur) == cur + 1

\* since : since  in getChangesSince
RequestSince(cur) == cur

\* the history of a reply whose cursor is not in last_seq: where it was
Reported(resp) ==
  IF resp.seq = Undefined THEN <<Ev("renamed", resp.cursor, 0)>> ELSE <<>>

\* triggerListeners: $.each(listeners, function() { this(resp); }), from
\* listener i on.  A listener that calls stop() clears active and the loop
\* goes on; a listener that throws ends the loop and the handler.
RECURSIVE triggerListeners(_, _, _, _, _)
triggerListeners(ls, i, resp, act, evs) ==
  IF i > Len(ls)
    THEN [active |-> act, evs |-> evs, threw |-> FALSE]
    ELSE LET called == Append(evs, Ev("invoke", i, resp.seq))
         IN CASE ls[i] = "thrower" ->
                   [active |-> act, evs |-> Append(called, Ev("throw", i, 0)), threw |-> TRUE]
              [] ls[i] = "stopper" ->
                   triggerListeners(ls, i + 1, resp, FALSE, Append(called, Ev("stop", 0, 0)))
              [] OTHER ->
                   triggerListeners(ls, i + 1, resp, act, called)

\* the value of pair while a single subscription is modelled
NoPair == <<>>

\* the value of call while no stateless operation is modelled
NoCall == <<>>

\* the state outside the subscriptions: var uuidCache = [] and the call of a
\* stateless operation that is being followed
stateless == <<uuidCache, call>>

(* ------------------------------- Init ---------------------------------- *)

\* the state when db.changes(since, options) returns the handle
Init ==
  /\ since \in StartCursors
  /\ active = TRUE
  /\ timeout = BaseTimeout
  /\ listeners = <<>>
  /\ timers = <<>>
  /\ requests = IF Truthy(since) THEN <<PollRequest(RequestSince(since))>> ELSE <<InfoRequest>>
  /\ log = IF Truthy(since) THEN <<Ev("poll", RequestSince(since), 0)>> ELSE <<Ev("info", since, 0)>>
  /\ pair = NoPair
  /\ uuidCache = <<>>
  /\ call = NoCall

(* ------------------------------ actions -------------------------------- *)

\* promise.onChange(fun)
onChange(k) ==
  /\ Len(listeners) < MaxListeners
  /\ listeners' = Append(listeners, k)
  /\ UNCHANGED <<since, active, timeout, requests, timers, log>>
  /\ UNCHANGED <<pair, stateless>>

\* a stop() that flips the flag instead of clearing it
stopToggles ==
  /\ Count("stop") < MaxStops
  /\ active' = ~active
  /\ log' = Append(log, Ev("stop", 0, 0))
  /\ UNCHANGED <<since, timeout, listeners, requests, timers>>
  /\ UNCHANGED <<pair, stateless>>

\* promise.stop()
stop ==
  /\ Count("stop") < MaxStops
  /\ active' = FALSE
  /\ log' = Append(log, Ev("stop", 0, 0))
  /\ UNCHANGED <<since, timeout, listeners, requests, timers>>
  /\ UNCHANGED <<pair, stateless>>

\* options.success that waits for a listener: with no listener registered it
\* neither takes the cursor of the reply nor polls again
optionsSuccessNeedsListener(i, resp) ==
  /\ requests[i].kind = "poll"
  /\ AjaxOutcome(resp, TRUE, TRUE) = "success"
  /\ Issued < MaxRequests
  /\ timeout' = SuccessTimeout(timeout)
  /\ LET rest == RemoveAt(requests, i)
         got == Append(log, Ev("success", resp.seq, requests[i].since))
         fan == triggerListeners(listeners, 1, resp, active, Reported(resp))
     IN IF SuccessHandles(active) /\ listeners # <<>>
          THEN /\ since' = NewCursor(since, resp)
               /\ active' = fan.active
               /\ IF fan.threw
                    THEN /\ requests' = rest
                         /\ log' = got \o fan.evs
                    ELSE /\ requests' = Append(rest, PollRequest(RequestSince(since')))
                         /\ log' = (got \o fan.evs) \o <<Ev("poll", RequestSince(since'), 0)>>
          ELSE /\ requests' = rest
               /\ log' = got
               /\ UNCHANGED <<since, active>>
  /\ UNCHANGED <<listeners, timers>>
  /\ UNCHANGED <<pair, stateless>>

\* a poll completes and ajax calls options.success(resp)
optionsSuccess(i, resp) ==
  /\ requests[i].kind = "poll"
  /\ AjaxOutcome(resp, TRUE, TRUE) = "success"
  /\ Issued < MaxRequests
  /\ timeout' = SuccessTimeout(timeout)
  /\ LET rest == RemoveAt(requests, i)
         got == Append(log, Ev("success", resp.seq, requests[i].since))
     IN IF SuccessHandles(active)
          THEN LET cur == NewCursor(since, resp)
                   fan == triggerListeners(listeners, 1, resp, active, Reported(resp))
               IN /\ since' = cur
                  /\ active' = fan.active
                  /\ IF fan.threw
                       THEN /\ requests' = rest
                            /\ log' = got \o fan.evs
                       ELSE /\ requests' = Append(rest, PollRequest(RequestSince(cur)))
                            /\ log' = (got \o fan.evs) \o <<Ev("poll", RequestSince(cur), 0)>>
          ELSE /\ requests' = rest
               /\ log' = got
               /\ UNCHANGED <<since, active>>
  /\ UNCHANGED <<listeners, timers>>
  /\ UNCHANGED <<pair, stateless>>

\* options.error that also restarts the feed from sequence 0
optionsErrorRewinds(i, resp) ==
  /\ requests[i].kind = "poll"
  /\ AjaxOutcome(resp, TRUE, TRUE) = "error"
  /\ requests' = RemoveAt(requests, i)
  /\ since' = 0
  /\ IF ErrorRetries(active)
       THEN /\ timers' = Append(timers, timeout)
            /\ timeout' = Backoff(timeout)
            /\ log' = log \o <<Ev("failure", requests[i].since, 0), Ev("timer", timeout, 0)>>
       ELSE /\ log' = Append(log, Ev("failure", requests[i].since, 0))
            /\ UNCHANGED <<timers, timeout>>
  /\ UNCHANGED <<active, listeners>>
  /\ UNCHANGED <<pair, stateless>>

\* a poll completes and ajax calls options.error(...)
optionsError(i, resp) ==
  /\ requests[i].kind = "poll"
  /\ AjaxOutcome(resp, TRUE, TRUE) = "error"
  /\ requests' = RemoveAt(requests, i)
  /\ IF ErrorRetries(active)
       THEN /\ timers' = Append(timers, timeout)
            /\ timeout' = Backoff(timeout)
            /\ log' = log \o <<Ev("failure", requests[i].since, 0), Ev("timer", timeout, 0)>>
       ELSE /\ log' = Append(log, Ev("failure", requests[i].since, 0))
            /\ UNCHANGED <<timers, timeout>>
  /\ UNCHANGED <<since, active, listeners>>
  /\ UNCHANGED <<pair, stateless>>

\* a retry scheduled with setInterval: the timer stays pending after it fires
timerFiresRepeating(i) ==
  /\ i \in 1 .. Len(timers)
  /\ Issued < MaxRequests
  /\ timers' = timers
  /\ requests' = Append(requests, PollRequest(RequestSince(since)))
  /\ log' = log \o <<Ev("fire", timers[i], 0), Ev("poll", RequestSince(since), 0)>>
  /\ UNCHANGED <<since, active, timeout, listeners>>
  /\ UNCHANGED <<pair, stateless>>

\* a retry timer fires: setTimeout(getChangesSince, timeout)
timerFires(i) ==
  /\ i \in 1 .. Len(timers)
  /\ Issued < MaxRequests
  /\ timers' = RemoveAt(timers, i)
  /\ requests' = Append(requests, PollRequest(RequestSince(since)))
  /\ log' = log \o <<Ev("fire", timers[i], 0), Ev("poll", RequestSince(since), 0)>>
  /\ UNCHANGED <<since, active, timeout, listeners>>
  /\ UNCHANGED <<pair, stateless>>

\* the db.info request completes with success: since = info.update_seq
infoSuccess(i, resp) ==
  /\ requests[i].kind = "info"
  /\ AjaxOutcome(resp, TRUE, FALSE) = "success"
  /\ Issued < MaxRequests
  /\ since' = resp.seq
  /\ requests' = Append(RemoveAt(requests, i), PollRequest(RequestSince(resp.seq)))
  /\ log' = log \o <<Ev("infoOk", resp.seq, 0), Ev("poll", RequestSince(resp.seq), 0)>>
  /\ UNCHANGED <<active, timeout, listeners, timers>>
  /\ UNCHANGED <<pair, stateless>>

\* the db.info request fails: db.info was given no error handler, ajax throws
infoThrows(i, resp) ==
  /\ requests[i].kind = "info"
  /\ AjaxOutcome(resp, TRUE, FALSE) = "throw"
  /\ requests' = RemoveAt(requests, i)
  /\ log' = Append(log, Ev("infoFail", 0, 0))
  /\ UNCHANGED <<since, active, timeout, listeners, timers>>
  /\ UNCHANGED <<pair, stateless>>

Next ==
  \/ \E k \in ListenerKinds : onChange(k)
  \/ stop
  \/ \E i \in 1 .. Len(requests), resp \in FeedResponses : optionsSuccess(i, resp)
  \/ \E i \in 1 .. Len(requests), resp \in FeedResponses : optionsError(i, resp)
  \/ \E i \in 1 .. Len(timers) : timerFires(i)
  \/ \E i \in 1 .. Len(requests), resp \in Responses : infoSuccess(i, resp)
  \/ \E i \in 1 .. Len(requests), resp \in Responses : infoThrows(i, resp)

Spec == Init /\ [][Next]_vars

(* -------------------------- two subscriptions -------------------------- *)

Subs == {1, 2}

single == <<since, active, timeout, listeners, requests, timers, log>>

\* the closure of one call of changes: var timeout = 100, active = true, listeners = []
Closure(s) == [since |-> s, active |-> TRUE, timeout |-> BaseTimeout, listeners |-> <<>>]

\* whose options.success / options.error the options object of subscription s
\* holds once both calls of changes have returned: each call assigns them, so
\* an object passed to both calls holds the handlers of the second
HandlersIn(shared, s) == IF shared THEN 2 ELSE s

\* a request in flight: ajax copied the handlers (h) out of the options object
\* of the subscription whose code issued it (s) when it was called
PairRequest(s, h, k, c) == [issuer |-> s, handler |-> h, kind |-> k, since |-> c]

\* the first request of subscription s, issued inside its call of changes,
\* when its options object held its own handlers
FirstRequest(s, c) ==
  IF Truthy(c) THEN PairRequest(s, s, "poll", RequestSince(c))
  ELSE PairRequest(s, s, "info", Undefined)

\* getChangesSince of subscription s
PairPoll(p, s, c) == PairRequest(s, HandlersIn(p.shared, s), "poll", RequestSince(c))

\* the state when both calls of changes have returned
InitPair ==
  /\ since = Undefined
  /\ active = FALSE
  /\ timeout = BaseTimeout
  /\ listeners = <<>>
  /\ requests = <<>>
  /\ timers = <<>>
  /\ log = <<>>
  /\ \E shared \in BOOLEAN, c1, c2 \in StartCursors :
       pair = [shared |-> shared,
               sub |-> <<Closure(c1), Closure(c2)>>,
               flight |-> <<FirstRequest(1, c1), FirstRequest(2, c2)>>,
               timers |-> <<>>,
               issued |-> 2,
               last |-> [op |-> "changes", sub |-> 0]]
  /\ uuidCache = <<>>
  /\ call = NoCall

\* promise.onChange(fun) on the handle of subscription s
pairOnChange(s, k) ==
  /\ Len(pair.sub[s].listeners) < MaxPairListeners
  /\ pair' = [pair EXCEPT !.sub[s].listeners = Append(@, k),
                          !.last = [op |-> "onChange", sub |-> s]]
  /\ UNCHANGED <<single, stateless>>

\* promise.stop() on the handle of subscription s
pairStop(s) ==
  /\ pair.sub[s].active
  /\ pair' = [pair EXCEPT !.sub[s].active = FALSE,
                          !.last = [op |-> "stop", sub |-> s]]
  /\ UNCHANGED <<single, stateless>>

\* a poll completes and ajax calls the options.success it copied
pairSuccess(i, resp) ==
  /\ pair.flight[i].kind = "poll"
  /\ AjaxOutcome(resp, TRUE, TRUE) = "success"
  /\ pair.issued < MaxPairRequests
  /\ LET r == pair.flight[i]
         h == r.handler
         c == pair.sub[h]
         rest == RemoveAt(pair.flight, i)
         cur == NewCursor(c.since, resp)
         fan == triggerListeners(c.listeners, 1, resp, c.active, <<>>)
         polls == SuccessHandles(c.active) /\ ~fan.threw
     IN pair' = [pair EXCEPT
          !.sub[h] = IF SuccessHandles(c.active)
                       THEN [c EXCEPT !.timeout = SuccessTimeout(c.timeout),
                                      !.since = cur,
                                      !.active = fan.active]
                       ELSE [c EXCEPT !.timeout = SuccessTimeout(c.timeout)],
          !.flight = IF polls THEN Append(rest, PairPoll(pair, h, cur)) ELSE rest,
          !.issued = IF polls THEN @ + 1 ELSE @,
          !.last = [op |-> "success", sub |-> r.issuer]]
  /\ UNCHANGED <<single, stateless>>

\* a poll completes and ajax calls the options.error it copied
pairError(i, resp) ==
  /\ pair.flight[i].kind = "poll"
  /\ AjaxOutcome(resp, TRUE, TRUE) = "error"
  /\ LET r == pair.flight[i]
         h == r.handler
         c == pair.sub[h]
     IN pair' = [pair EXCEPT
          !.sub[h].timeout = IF ErrorRetries(c.active) THEN Backoff(c.timeout) ELSE @,
          !.timers = IF ErrorRetries(c.active)
                       THEN Append(@, [sub |-> h, delay |-> c.timeout]) ELSE @,
          !.flight = RemoveAt(@, i),
          !.last = [op |-> "failure", sub |-> r.issuer]]
  /\ UNCHANGED <<single, stateless>>

\* a retry timer fires: getChangesSince of the subscription that scheduled it
pairTimerFires(i) ==
  /\ pair.issued < MaxPairRequests
  /\ LET s == pair.timers[i].sub
     IN pair' = [pair EXCEPT
          !.timers = RemoveAt(@, i),
          !.flight = Append(@, PairPoll(pair, s, pair.sub[s].since)),
          !.issued = @ + 1,
          !.last = [op |-> "fire", sub |-> s]]
  /\ UNCHANGED <<single, stateless>>

\* the db.info request of a subscription completes with success
pairInfoSuccess(i, resp) ==
  /\ pair.flight[i].kind = "info"
  /\ AjaxOutcome(resp, TRUE, FALSE) = "success"
  /\ pair.issued < MaxPairRequests
  /\ LET s == pair.flight[i].issuer
     IN pair' = [pair EXCEPT
          !.sub[s].since = resp.seq,
          !.flight = Append(RemoveAt(@, i), PairPoll(pair, s, resp.seq)),
          !.issued = @ + 1,
          !.last = [op |-> "infoOk", sub |-> s]]
  /\ UNCHANGED <<single, stateless>>

\* the db.info request of a subscription fails and ajax throws
pairInfoThrows(i, resp) ==
  /\ pair.flight[i].kind = "info"
  /\ AjaxOutcome(resp, TRUE, FALSE) = "throw"
  /\ pair' = [pair EXCEPT
       !.flight = RemoveAt(@, i),
       !.last = [op |-> "infoFail", sub |-> pair.flight[i].issuer]]
  /\ UNCHANGED <<single, stateless>>

NextPair ==
  \/ \E s \in Subs, k \in ListenerKinds : pairOnChange(s, k)
  \/ \E s \in Subs : pairStop(s)
  \/ \E i \in 1 .. Len(pair.flight), resp \in Responses : pairSuccess(i, resp)
  \/ \E i \in 1 .. Len(pair.flight), resp \in Responses : pairError(i, resp)
  \/ \E i \in 1 .. Len(pair.timers) : pairTimerFires(i)
  \/ \E i \in 1 .. Len(pair.flight), resp \in Responses : pairInfoSuccess(i, resp)
  \/ \E i \in 1 .. Len(pair.flight), resp \in Responses : pairInfoThrows(i, resp)

SpecPair == InitPair /\ [][NextPair]_vars

(* --------------------- the query string of a poll ---------------------- *)

\* A JavaScript string is the sequence of its characters.  A JavaScript value
\* is a record: t is its type and s what String(value) gives.

DigitChars == <<"0", "1", "2", "3", "4", "5", "6", "7", "8", "9">>

\* String(n) for a natural number: its decimal digits
RECURSIVE Digits(_)
Digits(n) ==
  IF n < 10 THEN <<DigitChars[n + 1]>>
  ELSE Digits(n \div 10) \o <<DigitChars[(n % 10) + 1]>>

Num(n) == [t |-> "number", s |-> Digits(n)]

Str(cs) == [t |-> "string", s |-> cs]

Fun == [t |-> "function", s |-> <<"f", "(", ")", "{", "}">>]

Undef == [t |-> "undefined", s |-> <<"u", "n", "d", "e", "f", "i", "n", "e", "d">>]

\* the closure variable since as a JavaScript value
CursorValue(c) == IF c = Undefined THEN Undef ELSE Num(c)

\* the names of the entries of an options object
nHeartbeat == <<"h", "e", "a", "r", "t", "b", "e", "a", "t">>

nFeed == <<"f", "e", "e", "d">>

nSince == <<"s", "i", "n", "c", "e">>

nSuccess == <<"s", "u", "c", "c", "e", "s", "s">>

nError == <<"e", "r", "r", "o", "r">>

nBeforeSuccess == <<"b", "e", "f", "o", "r", "e", "S", "u", "c", "c", "e", "s", "s">>

nAjaxStart == <<"a", "j", "a", "x", "S", "t", "a", "r", "t">>

nFilter == <<"f", "i", "l", "t", "e", "r">>

nKey == <<"k", "e", "y">>

nStartkey == <<"s", "t", "a", "r", "t", "k", "e", "y">>

nEndkey == <<"e", "n", "d", "k", "e", "y">>

longpoll == <<"l", "o", "n", "g", "p", "o", "l", "l">>

\* an object is the sequence of its entries, in the order for..in visits them
Entry(n, v) == [name |-> n, value |-> v]

Has(obj, n) == \E i \in 1 .. Len(obj) : obj[i].name = n

Get(obj, n) == obj[CHOOSE i \in 1 .. Len(obj) : obj[i].name = n].value

\* obj[n] = v: an entry that exists keeps its place
Put(obj, n, v) ==
  IF Has(obj, n)
    THEN [i \in 1 .. Len(obj) |-> IF obj[i].name = n THEN Entry(n, v) ELSE obj[i]]
    ELSE Append(obj, Entry(n, v))

\* $.extend(target, source): copies every entry of source whose value is not
\* undefined
RECURSIVE Extend(_, _)
Extend(target, source) ==
  IF source = <<>> THEN target
  ELSE Extend(IF Head(source).value.t = "undefined" THEN target
              ELSE Put(target, Head(source).name, Head(source).value),
              Tail(source))

\* encodeURIComponent of one character
EncodeChar(c) ==
  CASE c = "/" -> <<"%", "2", "F">>
    [] c = "&" -> <<"%", "2", "6">>
    [] c = "=" -> <<"%", "3", "D">>
    [] c = "?" -> <<"%", "3", "F">>
    [] c = "%" -> <<"%", "2", "5">>
    [] c = "\"" -> <<"%", "2", "2">>
    [] c = "{" -> <<"%", "7", "B">>
    [] c = "}" -> <<"%", "7", "D">>
    [] c = "[" -> <<"%", "5", "B">>
    [] c = "]" -> <<"%", "5", "D">>
    [] c = "," -> <<"%", "2", "C">>
    [] OTHER -> <<c>>

\* encodeURIComponent of a string
RECURSIVE encodeURIComponent(_)
encodeURIComponent(cs) ==
  IF cs = <<>> THEN <<>> ELSE EncodeChar(Head(cs)) \o encodeURIComponent(Tail(cs))

\* JSON.stringify of the characters of a string
RECURSIVE JsonChars(_)
JsonChars(cs) ==
  IF cs = <<>> THEN <<>>
  ELSE (IF Head(cs) = "\"" THEN <<"\\", "\"">> ELSE <<Head(cs)>>) \o JsonChars(Tail(cs))

\* an array of strings and numbers: String(array) is its items joined by ","
RECURSIVE Commas(_)
Commas(ss) ==
  IF ss = <<>> THEN <<>>
  ELSE IF Len(ss) = 1 THEN ss[1]
  ELSE (Head(ss) \o <<",">>) \o Commas(Tail(ss))

Arr(items) ==
  [t |-> "array", s |-> Commas([i \in 1 .. Len(items) |-> items[i].s]), items |-> items]

\* JSON.stringify of a string or a number
JsonScalar(v) ==
  IF v.t = "string" THEN <<"\"">> \o JsonChars(v.s) \o <<"\"">> ELSE v.s

\* toJSON(obj): JSON.stringify(obj), which is undefined for undefined and for
\* a function
toJSON(v) ==
  CASE v.t = "string" -> Str(JsonScalar(v))
    [] v.t = "number" -> Str(JsonScalar(v))
    [] v.t = "array" ->
         Str(<<"[">> \o Commas([i \in 1 .. Len(v.items) |-> JsonScalar(v.items[i])]) \o <<"]">>)
    [] OTHER -> Undef

\* the entries encodeOptions leaves out
SkippedNames == {nError, nSuccess, nBeforeSuccess, nAjaxStart}

\* the entries whose value encodeOptions passes through toJSON
JsonNames == {nKey, nStartkey, nEndkey}

\* buf.join("&")
RECURSIVE Join(_)
Join(buf) ==
  IF Len(buf) = 1 THEN buf[1] ELSE (Head(buf) \o <<"&">>) \o Join(Tail(buf))

\* a loop that passes no value through toJSON
RECURSIVE EncodeEntriesRaw(_, _)
EncodeEntriesRaw(options, i) ==
  IF i > Len(options) THEN <<>>
  ELSE IF options[i].name \in SkippedNames THEN EncodeEntriesRaw(options, i + 1)
  ELSE <<(encodeURIComponent(options[i].name) \o <<"=">>)
           \o encodeURIComponent(options[i].value.s)>>
         \o EncodeEntriesRaw(options, i + 1)

\* the loop of encodeOptions: buf after the entries of options from i on
RECURSIVE EncodeEntries(_, _)
EncodeEntries(options, i) ==
  IF i > Len(options) THEN <<>>
  ELSE IF options[i].name \in SkippedNames THEN EncodeEntries(options, i + 1)
  ELSE LET value == IF options[i].name \in JsonNames THEN toJSON(options[i].value)
                    ELSE options[i].value
       IN <<(encodeURIComponent(options[i].name) \o <<"=">>) \o encodeURIComponent(value.s)>>
            \o EncodeEntries(options, i + 1)

\* encodeOptions(options)
encodeOptions(options) ==
  LET buf == EncodeEntries(options, 1)
  IN IF Len(buf) > 0 THEN <<"?">> \o Join(buf) ELSE <<>>

\* options.success = ..., options.error = ... in changes
WithHandlers(options) == Put(Put(options, nSuccess, Fun), nError, Fun)

\* opts of getChangesSince:
\* $.extend({heartbeat : 10 * 1000}, options, {feed : "longpoll", since : since})
PollOptions(options, cur) ==
  Extend(Extend(<<Entry(nHeartbeat, Num(heartbeat))>>, options),
         <<Entry(nFeed, Str(longpoll)), Entry(nSince, CursorValue(RequestSince(cur)))>>)

\* what the caller may put into the options object given to changes
CallerHeartbeats == {<<>>, <<Entry(nHeartbeat, Num(5000))>>}

CallerFeeds == {<<>>, <<Entry(nFeed, Str(<<"n", "o", "r", "m", "a", "l">>))>>}

CallerSinces == {<<>>, <<Entry(nSince, Num(MaxSeq + 7))>>}

CallerFilters == {<<>>, <<Entry(nFilter, Str(<<"a", "/", "b", "&", "c">>))>>}

CallerHooks == {<<>>, <<Entry(nBeforeSuccess, Fun)>>}

CallerOptions ==
  {((f \o s) \o (h \o x)) \o b :
     f \in CallerFeeds, s \in CallerSinces, h \in CallerHeartbeats,
     x \in CallerFilters, b \in CallerHooks}

\* the query string of a request that has not been built
NoQuery == <<"-">>

\* the values the cursor may hold when getChangesSince runs: a start cursor
\* that passed if (since), the update_seq of the metadata reply, or what
\* options.success took from a reply
PollCursors ==
  ({c \in StartCursors : Truthy(c)} \cup {r.seq : r \in Responses})
    \cup {NewCursor(0, r) : r \in {x \in FeedResponses : AjaxOutcome(x, TRUE, TRUE) = "success"}}

\* a subscription about to poll: changes(since, options) has assigned its
\* handlers to the options object and the cursor holds c
InitQuery ==
  /\ since = Undefined
  /\ active = FALSE
  /\ timeout = BaseTimeout
  /\ listeners = <<>>
  /\ requests = <<>>
  /\ timers = <<>>
  /\ log = <<>>
  /\ pair = NoPair
  /\ uuidCache = <<>>
  /\ \E o \in CallerOptions, c \in PollCursors :
       call = [op |-> "changes", given |-> o, options |-> WithHandlers(o), since |-> c,
               query |-> NoQuery]

\* getChangesSince builds the URL of the poll
getChangesSince ==
  /\ call.query = NoQuery
  /\ call' = [call EXCEPT !.query = encodeOptions(PollOptions(call.options, call.since))]
  /\ UNCHANGED <<single, pair, uuidCache>>

NextQuery == getChangesSince

SpecQuery == InitQuery /\ [][NextQuery]_vars

(* ----------------- stateless operations through ajax ------------------- *)

\* documents a bulk operation may be given
MaxDocs == 2

DocIds == 1 .. MaxDocs

\* the revisions a document of the caller may carry
Revs == {1, 2}

\* a document of the caller: _id, _rev and whether _deleted is true
Doc(i, r) == [id |-> i, rev |-> r, deleted |-> FALSE]

\* the lists of documents with distinct ids
DocLists ==
  {ds \in UNION {[1 .. n -> {Doc(i, r) : i \in DocIds, r \in Revs}] : n \in 0 .. MaxDocs} :
     \A a, b \in 1 .. Len(ds) : a # b => ds[a].id # ds[b].id}

\* the operations followed, with the status each declares as its success
StatelessOps ==
  {"info", "allDbs", "activeTasks", "drop", "create", "compact", "viewCleanup", "removeDoc",
   "bulkSave", "bulkRemove"}

BulkOps == {"bulkSave", "bulkRemove"}

\* the handlers and hooks the caller put into the options object
CallerHandlers == [success : BOOLEAN, error : BOOLEAN, beforeSuccess : BOOLEAN, ajaxStart : BOOLEAN]

\* the outcome of one document of a _bulk_docs request
EntryResults == {"ok", "conflict", "forbidden"}

\* the array a server answers a _bulk_docs request of docs with: one entry
\* for each document, in the order of the request
BulkResults(docs) ==
  {[i \in 1 .. Len(docs) |-> [id |-> docs[i].id, result |-> f[i]]] :
     f \in [1 .. Len(docs) -> EntryResults]}

\* the statuses a server answers with
Statuses == {200, 201, 202, 500}

\* the replies to the request of call c: a body that does not decode, a
\* decoded body with an error field, or another decoded body, which for
\* _bulk_docs answered with 201 is the array of results
ServerReplies(c) ==
  {[status |-> s, parses |-> FALSE, error |-> FALSE, body |-> <<>>] : s \in Statuses}
    \cup {[status |-> 500, parses |-> TRUE, error |-> TRUE, body |-> <<>>]}
    \cup UNION {{[status |-> s, parses |-> TRUE, error |-> FALSE, body |-> b] :
                   b \in IF c.op \in BulkOps /\ s = 201 THEN BulkResults(c.docs) ELSE {<<>>}} :
                s \in Statuses}

\* one invocation of a handler: its name, what its arguments are, and the
\* decoded body when it is one of them
Invocation(h, args, payload) == [handler |-> h, args |-> args, payload |-> payload]

\* resp && resp.error || errorMessage
ErrorTag(resp) == IF resp.error THEN "resp.error" ELSE "errorMessage"

\* resp && resp.reason || "no response"
ErrorReason(resp) == IF resp.error THEN "resp.reason" ELSE "no response"

\* complete without the catch block: a body that does not decode is handled
\* by the test of the status like any other
completeStatusFirst(resp, o) ==
  IF resp.status = o.successStatus
    THEN [calls |->
            (IF o.beforeSuccess
               THEN <<Invocation("beforeSuccess", <<"req", "resp", "reqDuration">>, resp.body)>>
               ELSE <<>>)
            \o (IF o.success
                  THEN <<Invocation("success", <<"resp", "reqDuration">>, resp.body)>>
                  ELSE <<>>),
          threw |-> FALSE]
    ELSE IF o.error
      THEN [calls |-> <<Invocation("error", <<"status", "errorMessage", "no response",
                                              "reqDuration">>, <<>>)>>,
            threw |-> FALSE]
      ELSE [calls |-> <<>>, threw |-> TRUE]

\* complete that does nothing when a request fails and there is no error
\* handler
completeSilent(resp, o) ==
  IF resp.parses /\ resp.status = o.successStatus
    THEN completeStatusFirst(resp, o)
    ELSE IF o.error
      THEN [calls |-> <<Invocation("error", <<"status", ErrorTag(resp), ErrorReason(resp),
                                              "reqDuration">>, <<>>)>>,
            threw |-> FALSE]
      ELSE [calls |-> <<>>, threw |-> FALSE]

\* complete that reports a result array with an entry that is not ok as an
\* error
completeAllOrNothing(resp, o) ==
  IF resp.parses /\ resp.status = o.successStatus
      /\ \A i \in 1 .. Len(resp.body) : resp.body[i].result = "ok"
    THEN completeStatusFirst(resp, o)
    ELSE IF o.error
      THEN [calls |-> <<Invocation("error", <<"status", ErrorTag(resp), ErrorReason(resp),
                                              "reqDuration">>, <<>>)>>,
            threw |-> FALSE]
      ELSE [calls |-> <<>>, threw |-> TRUE]

\* the complete callback of ajax for the reply resp, with the handlers of the
\* copy of options: the handlers it invokes, in order, and whether it throws
complete(resp, o) ==
  IF ~resp.parses
    THEN (IF o.error
            THEN [calls |-> <<Invocation("error", <<"status", "req", "e">>, <<>>)>>,
                  threw |-> FALSE]
            ELSE [calls |-> <<>>, threw |-> TRUE])
    ELSE LET started == IF o.ajaxStart
                          THEN <<Invocation("ajaxStart", <<"resp">>, resp.body)>>
                          ELSE <<>>
         IN IF resp.status = o.successStatus
              THEN [calls |->
                      (started
                       \o (IF o.beforeSuccess
                             THEN <<Invocation("beforeSuccess", <<"req", "resp", "reqDuration">>,
                                               resp.body)>>
                             ELSE <<>>))
                      \o (IF o.success
                            THEN <<Invocation("success", <<"resp", "reqDuration">>, resp.body)>>
                            ELSE <<>>),
                    threw |-> FALSE]
              ELSE IF o.error
                THEN [calls |->
                        Append(started,
                               Invocation("error", <<"status", ErrorTag(resp), ErrorReason(resp),
                                                     "reqDuration">>, <<>>)),
                      threw |-> FALSE]
                ELSE [calls |-> started, threw |-> TRUE]

\* the documents an operation is given: a list for the bulk operations, one
\* document for removeDoc, none for the others
DocsFor(op) ==
  IF op \in BulkOps THEN DocLists
  ELSE IF op = "removeDoc" THEN {ds \in DocLists : Len(ds) = 1}
  ELSE {<<>>}

\* the reply of a request that has not completed
NoReply == [status |-> 0, parses |-> FALSE, error |-> FALSE, body |-> <<>>]

\* the copy of the options object that ajax makes: the handlers of the caller
\* and the status that counts as success
Options(h, status) ==
  [success |-> h.success, error |-> h.error, beforeSuccess |-> h.beforeSuccess,
   ajaxStart |-> h.ajaxStart, successStatus |-> status]

\* the caller is about to call an operation of the library: the documents
\* and the options object it passes
InitAjax ==
  /\ since = Undefined
  /\ active = FALSE
  /\ timeout = BaseTimeout
  /\ listeners = <<>>
  /\ requests = <<>>
  /\ timers = <<>>
  /\ log = <<>>
  /\ pair = NoPair
  /\ uuidCache = <<>>
  /\ \E op \in StatelessOps, h \in CallerHandlers, ds \in DocLists :
       /\ ds \in DocsFor(op)
       /\ call = [op |-> op, docs |-> ds, given |-> ds, o |-> h, successStatus |-> Undefined,
                  stage |-> "called", sent |-> 0, data |-> <<>>, reply |-> NoReply,
                  calls |-> <<>>, threw |-> FALSE]

\* ajax(obj, options, errorMessage) for options that declare the status
\* declared: options = $.extend({successStatus: 200}, options) and one $.ajax
\* request with the body data
ajax(declared, data) ==
  [call EXCEPT !.successStatus = IF declared = Undefined THEN successStatus ELSE declared,
               !.stage = "sent", !.sent = @ + 1, !.data = data]

\* db.info(options): ajax with the options as given
info ==
  /\ call.stage = "called"
  /\ call.op = "info"
  /\ call' = ajax(call.successStatus, <<>>)
  /\ UNCHANGED <<single, pair, uuidCache>>

\* $.couch.allDbs(options): ajax with the options as given
allDbs ==
  /\ call.stage = "called"
  /\ call.op = "allDbs"
  /\ call' = ajax(call.successStatus, <<>>)
  /\ UNCHANGED <<single, pair, uuidCache>>

\* $.couch.activeTasks(options): ajax with the options as given
activeTasks ==
  /\ call.stage = "called"
  /\ call.op = "activeTasks"
  /\ call' = ajax(call.successStatus, <<>>)
  /\ UNCHANGED <<single, pair, uuidCache>>

\* db.removeDoc(doc, options): a DELETE of the document, with the options as
\* given
removeDoc ==
  /\ call.stage = "called"
  /\ call.op = "removeDoc"
  /\ call' = ajax(call.successStatus, <<>>)
  /\ UNCHANGED <<single, pair, uuidCache>>

\* db.viewCleanup(options): $.extend(options, {successStatus: 202})
viewCleanup ==
  /\ call.stage = "called"
  /\ call.op = "viewCleanup"
  /\ call' = ajax(202, <<>>)
  /\ UNCHANGED <<single, pair, uuidCache>>

\* db.drop(options): ajax with the options as given
drop ==
  /\ call.stage = "called"
  /\ call.op = "drop"
  /\ call' = ajax(call.successStatus, <<>>)
  /\ UNCHANGED <<single, pair, uuidCache>>

\* db.create(options): $.extend(options, {successStatus: 201})
create ==
  /\ call.stage = "called"
  /\ call.op = "create"
  /\ call' = ajax(201, <<>>)
  /\ UNCHANGED <<single, pair, uuidCache>>

\* db.compact(options): $.extend(options, {successStatus: 202})
compact ==
  /\ call.stage = "called"
  /\ call.op = "compact"
  /\ call' = ajax(202, <<>>)
  /\ UNCHANGED <<single, pair, uuidCache>>

\* db.bulkSave(docs, options): successStatus 201, data: toJSON(docs)
bulkSave ==
  /\ call.stage = "called"
  /\ call.op = "bulkSave"
  /\ call' = ajax(201, call.docs)
  /\ UNCHANGED <<single, pair, uuidCache>>

\* a marking that stops after the first document
MarkDeletedFirst(docs) ==
  [i \in 1 .. Len(docs) |-> IF i = 1 THEN [docs[i] EXCEPT !.deleted = TRUE] ELSE docs[i]]

\* $.each(docs.docs, function(i, doc){ doc._deleted = true; })
MarkDeleted(docs) == [i \in 1 .. Len(docs) |-> [docs[i] EXCEPT !.deleted = TRUE]]

\* db.bulkRemove(docs, options): marks the caller's documents, successStatus
\* 201, data: toJSON(docs)
bulkRemove ==
  /\ call.stage = "called"
  /\ call.op = "bulkRemove"
  /\ call' = [ajax(201, MarkDeleted(call.docs)) EXCEPT !.docs = MarkDeleted(call.docs)]
  /\ UNCHANGED <<single, pair, uuidCache>>

\* a completion that sends the request again, up to three times, when it
\* failed
ajaxCompleteRetries(resp) ==
  /\ call.stage = "sent"
  /\ LET done == complete(resp, Options(call.o, call.successStatus))
         again == (~resp.parses \/ resp.status # call.successStatus) /\ call.sent < 3
     IN call' = [call EXCEPT !.stage = IF again THEN "sent" ELSE "done",
                             !.sent = IF again THEN @ + 1 ELSE @,
                             !.calls = done.calls, !.threw = done.threw, !.reply = resp]
  /\ UNCHANGED <<single, pair, uuidCache>>

\* the request completes: $.ajax calls complete(req)
ajaxComplete(resp) ==
  /\ call.stage = "sent"
  /\ LET done == complete(resp, Options(call.o, call.successStatus))
     IN call' = [call EXCEPT !.stage = "done", !.calls = done.calls, !.threw = done.threw,
                             !.reply = resp]
  /\ UNCHANGED <<single, pair, uuidCache>>

NextAjax ==
  \/ info
  \/ allDbs
  \/ activeTasks
  \/ removeDoc
  \/ viewCleanup
  \/ drop
  \/ create
  \/ compact
  \/ bulkSave
  \/ bulkRemove
  \/ \E resp \in ServerReplies(call) : ajaxComplete(resp)

SpecAjax == InitAjax /\ [][NextAjax]_vars

(* ------------------------------ newUUID -------------------------------- *)

\* calls of newUUID in one behaviour
MaxUuidCalls == 4

\* largest cacheNum a caller passes
MaxCacheNum == 2

\* the cacheNum argument: omitted, or a number of identifiers
CacheNums == {Undefined} \cup (1 .. MaxCacheNum)

\* if (cacheNum === undefined) { cacheNum = 1; }
DefaultCount(cacheNum) == IF cacheNum = Undefined THEN 1 ELSE cacheNum

\* a test that fetches on every call
NeedsFetchAlways(cache) == TRUE

\* if (!uuidCache.length)
NeedsFetch(cache) == Len(cache) = 0

\* the options newUUID gives to ajax: a success handler and nothing else
UuidOptions ==
  Options([success |-> TRUE, error |-> FALSE, beforeSuccess |-> FALSE, ajaxStart |-> FALSE],
          successStatus)

\* the replies to GET /_uuids?count=n of a server that has handed out the
\* identifiers 1 .. served: n new identifiers, or a failure
UuidReplies(n, served) ==
  {[status |-> successStatus, parses |-> TRUE, error |-> FALSE,
    body |-> [i \in 1 .. n |-> served + i]]}
    \cup {[status |-> s, parses |-> FALSE, error |-> FALSE, body |-> <<>>] :
            s \in {successStatus, 500}}
    \cup {[status |-> 500, parses |-> TRUE, error |-> e, body |-> <<>>] : e \in BOOLEAN}

\* uuidCache.pop(): the last element, undefined for an empty array, and the
\* array that is left
ShiftLast(cache) ==
  IF cache = <<>> THEN [value |-> Undefined, rest |-> <<>>]
  ELSE [value |-> cache[Len(cache)], rest |-> SubSeq(cache, 1, Len(cache) - 1)]

\* uuidCache.shift(): the first element, undefined for an empty array, and
\* the array that is left
Shift(cache) ==
  IF cache = <<>> THEN [value |-> Undefined, rest |-> <<>>]
  ELSE [value |-> Head(cache), rest |-> Tail(cache)]

\* no call of newUUID has been made: var uuidCache = [].  Of the calls made
\* so far, call keeps the last one and counts: the requests (fetches), the
\* identifiers the server handed out (served), the calls, the batch counts
\* they asked for (counts) and those that threw (failed)
InitUuid ==
  /\ since = Undefined
  /\ active = FALSE
  /\ timeout = BaseTimeout
  /\ listeners = <<>>
  /\ requests = <<>>
  /\ timers = <<>>
  /\ log = <<>>
  /\ pair = NoPair
  /\ uuidCache = <<>>
  /\ call = [op |-> "none", cacheNum |-> Undefined, fetched |-> FALSE, count |-> 0,
             reply |-> NoReply, returned |-> Undefined, threw |-> FALSE,
             fetches |-> 0, served |-> 0, calls |-> 0, counts |-> {}, failed |-> 0]

\* $.couch.newUUID(cacheNum), with resp the reply to its request if it makes
\* one.  The request is synchronous (async: false): complete runs before
\* $.ajax returns, and an exception it throws ends newUUID.
newUUID(cacheNum, resp) ==
  /\ call.calls < MaxUuidCalls
  /\ LET fetch == NeedsFetch(uuidCache)
         done == IF fetch THEN complete(resp, UuidOptions) ELSE [calls |-> <<>>, threw |-> FALSE]
         stored == Len(done.calls) > 0
         cache == IF stored THEN done.calls[1].payload ELSE uuidCache
     IN /\ uuidCache' = IF done.threw THEN uuidCache ELSE Shift(cache).rest
        /\ call' = [op |-> "newUUID", cacheNum |-> cacheNum, fetched |-> fetch,
                    count |-> IF fetch THEN DefaultCount(cacheNum) ELSE 0,
                    reply |-> resp,
                    returned |-> IF done.threw THEN Undefined ELSE Shift(cache).value,
                    threw |-> done.threw,
                    fetches |-> call.fetches + (IF fetch THEN 1 ELSE 0),
                    served |-> call.served + (IF stored THEN Len(resp.body) ELSE 0),
                    calls |-> call.calls + 1,
                    counts |-> call.counts \cup {DefaultCount(cacheNum)},
                    failed |-> call.failed + (IF done.threw THEN 1 ELSE 0)]
  /\ UNCHANGED <<single, pair>>

NextUuid ==
  \E cacheNum \in CacheNums :
    \E resp \in IF NeedsFetch(uuidCache) THEN UuidReplies(DefaultCount(cacheNum), call.served)
                ELSE {NoReply} :
      newUUID(cacheNum, resp)

SpecUuid == InitUuid /\ [][NextUuid]_vars

(* ------------------------ reading the history -------------------------- *)

LogIdx == 1 .. Len(log)

\* the events the current step appends to the history
New == SubSeq(log', Len(log) + 1, Len(log'))

\* the current step is the one whose first event is e
Step(e) == Len(log') > Len(log) /\ log'[Len(log) + 1].ev = e

IsInvoke(e) == e.ev = "invoke"

\* the listeners invoked by a run of events, in the order of invocation
InvokedBy(evs) ==
  LET inv == SelectSeq(evs, IsInvoke)
  IN [k \in 1 .. Len(inv) |-> inv[k].a]

\* the index of the last event e of the history
LastOf(e) == CHOOSE i \in LogIdx : log[i].ev = e /\ \A k \in LogIdx : k > i => log[k].ev # e

\* no event of the kinds es lies strictly between i and j
NoneBetween(i, j, es) == \A k \in LogIdx : (i < k /\ k < j) => log[k].ev \notin es

InfoPending == Count("info") > Count("infoOk") + Count("infoFail")

(* ------------------------------- claims -------------------------------- *)

\* C1: once stop() has been called, no listener of the subscription is
\* invoked again, wherever stop() was called from.
C1_NoListenerAfterStop ==
  \A i, j \in LogIdx : (i < j /\ log[i].ev = "stop") => log[j].ev # "invoke"

\* C2: once stop() has been called, the subscription issues no further
\* request (neither a poll nor a metadata query).
C2_NoRequestAfterStop ==
  \A i, j \in LogIdx : (i < j /\ log[i].ev = "stop") => log[j].ev \notin {"poll", "info"}

\* C3: a successful poll response that arrives after stop() is discarded: the
\* step invokes no listener, leaves the cursor alone and issues no poll; and
\* once stopped with no metadata query pending, no step changes the cursor.
C3_ResponseAfterStopDiscarded ==
  [][ /\ (~active /\ Step("success")) =>
           /\ since' = since
           /\ Len(New) = 1
           /\ Len(requests') = Len(requests) - 1
           /\ UNCHANGED <<active, listeners, timers>>
      /\ (~active /\ ~InfoPending) => since' = since ]_vars

\* C3 witness: a stopped subscription has just discarded a successful response
C3_Witness ==
  /\ ~active
  /\ Len(log) > 1
  /\ log[Len(log)].ev = "success"
  /\ \E i \in LogIdx : log[i].ev = "stop"

\* C4: a successful poll response handled while active is delivered exactly
\* once to each registered listener, in registration order.
C4_EachListenerOnceInOrder ==
  [][ (active /\ Step("success")) =>
        InvokedBy(New) = [k \in 1 .. Len(listeners) |-> k] ]_vars

\* C5: at most one activity of the subscription is outstanding: never two
\* requests in flight, never a request in flight together with a retry timer.
C5_OneOutstanding == Len(requests) + Len(timers) <= 1

\* C5 witness: a retry request is in flight after a timer fired
C5_Witness == Len(requests) = 1 /\ Count("fire") >= 1

\* C6: a successful poll handled while active replaces the cursor by the
\* response's cursor, invokes every registered listener with the batch and
\* then, in the same step and without a timer, issues the next poll.
C6_DeliverThenPollAgain ==
  [][ (active /\ Step("success")) =>
        /\ since' = New[1].a
        /\ InvokedBy(New) = [k \in 1 .. Len(listeners) |-> k]
        /\ New[Len(New)] = Ev("poll", since', 0)
        /\ Len(requests') = 1
        /\ timers' = timers ]_vars

\* C7: between two consecutive retries with no success in between, the delay
\* scheduled doubles.
C7_BackoffDoubles ==
  \A i, j \in LogIdx :
    (/\ i < j
     /\ log[i].ev = "timer"
     /\ log[j].ev = "timer"
     /\ NoneBetween(i, j, {"timer", "success"})) => log[j].a = 2 * log[i].a

\* C7 witness: three failures in a row, each with its retry scheduled
C7_Witness == Count("timer") >= 3 /\ Count("success") = 0

\* C8: after a successful poll the retry delay is 100 ms, and the first retry
\* scheduled after a success waits 100 ms whatever failed before it.
C8_SuccessResetsDelay ==
  /\ \A i \in LogIdx :
       (log[i].ev = "success" /\ NoneBetween(i, Len(log) + 1, {"timer"})) => timeout = 100
  /\ \A i, j \in LogIdx :
       (/\ i < j
        /\ log[i].ev = "success"
        /\ log[j].ev = "timer"
        /\ NoneBetween(i, j, {"timer", "success"})) => log[j].a = 100

\* C8 witness: a failure, then a success, then a failure with its retry
C8_Witness ==
  \E i, j, k \in LogIdx :
    i < j /\ j < k /\ log[i].ev = "timer" /\ log[j].ev = "success" /\ log[k].ev = "timer"

C10_FailureKeepsCursor ==
  [][ /\ (active /\ Step("failure")) => UNCHANGED <<since, listeners, active>>
      /\ Step("fire") =>
           /\ New[2] = Ev("poll", log[LastOf("failure")].a, 0)
           /\ requests'[Len(requests')].since = log[LastOf("failure")].a ]_vars

\* C10 witness: a retry is in flight after a failed poll
C10_Witness ==
  /\ Len(requests) = 1
  /\ Len(log) > 1
  /\ log[Len(log)].ev = "poll"
  /\ log[Len(log) - 1].ev = "fire"

\* the index of the last event e before position j of the history
LastBefore(j, e) ==
  CHOOSE i \in 1 .. j - 1 : log[i].ev = e /\ \A k \in i + 1 .. j - 1 : log[k].ev # e

HasBefore(j, e) == \E i \in 1 .. j - 1 : log[i].ev = e

\* the four kinds of failed poll: no HTTP response, an unexpected status, a
\* body that does not decode, a JSON body with an error field
NoResponse ==
  [status |-> 0, parses |-> FALSE, error |-> FALSE, seq |-> 0, cursor |-> 0]

UnexpectedStatus ==
  [status |-> 500, parses |-> TRUE, error |-> FALSE, seq |-> 0, cursor |-> 0]

UndecodableBody ==
  [status |-> successStatus, parses |-> FALSE, error |-> FALSE, seq |-> 0, cursor |-> 0]

ServerError ==
  [status |-> 500, parses |-> TRUE, error |-> TRUE, seq |-> 0, cursor |-> 0]

PollFailures == {NoResponse, UnexpectedStatus, UndecodableBody, ServerError}

\* C11: when a start cursor is supplied, whatever its value, the first
\* request is a poll that carries it and no metadata query is issued.
C11_SuppliedCursorPollsFirst ==
  /\ log[1].ev = "info" => log[1].a = Undefined
  /\ (Len(log) = 1 /\ log[1].ev = "poll") => log[1].a = since

\* C12: when no start cursor is supplied the first request is the metadata
\* query, and the first poll is issued by the step that receives its
\* response and carries the update_seq of that response.
C12_MetadataQueryFirst ==
  /\ (Len(log) = 1 /\ since = Undefined) => log[1].ev = "info"
  /\ log[1] = Ev("info", Undefined, 0) =>
       \A j \in LogIdx :
         (log[j].ev = "poll" /\ ~HasBefore(j, "poll")) =>
           (j > 2 /\ log[j - 1] = Ev("infoOk", log[j].a, 0) /\ ~HasBefore(j - 1, "infoOk"))

\* C12 witness: subscribed without a cursor, the first poll has been issued
C12_Witness == log[1] = Ev("info", Undefined, 0) /\ Count("poll") >= 1

C14_EveryFailureRetries ==
  [][ /\ \A resp \in PollFailures :
           resp \in Responses /\ AjaxOutcome(resp, TRUE, TRUE) = "error"
      /\ (active /\ Step("failure")) =>
           /\ since' = since
           /\ Len(New) = 2
           /\ New[2] = Ev("timer", timeout, 0)
           /\ timers' = Append(timers, timeout)
      /\ \A n \in 1 .. Len(New) :
           New[n].ev = "invoke" => (New[1].ev = "success" /\ New[n].b = New[1].a) ]_vars

\* C14 witness: a failed poll has been handled and its retry is pending
C14_Witness == Len(timers) = 1 /\ log[Len(log)].ev = "timer" /\ Len(listeners) > 0

\* C15: stop() on a stopped subscription changes nothing, stop() always
\* leaves active false, and no step sets active back to true.
C15_StopIdempotentIrreversible ==
  [][ /\ ~active => ~active'
      /\ Step("stop") => ~active'
      /\ (~active /\ Step("stop")) =>
           UNCHANGED <<since, active, timeout, listeners, requests, timers>> ]_vars

\* C15 witness: the caller has called stop() on a stopped subscription
C15_Witness ==
  \E i, j \in LogIdx :
    i < j /\ log[i].ev = "stop" /\ log[j].ev = "stop" /\ log[j - 1].ev # "invoke"

\* C16: once stopped, no step changes the cursor, active or the retry delay.
C16_StateFrozenAfterStop == [][ ~active => UNCHANGED <<since, active, timeout>> ]_vars

\* C18: as long as stop() has not been called, exactly one activity is
\* pending: a request in flight or a retry timer.
C18_ExactlyOnePending == active => Len(requests) + Len(timers) = 1

\* C19, in the form a finite run refutes: a subscription that was never
\* stopped and has seen a request fail still has a request in flight or a
\* retry timer pending, without which no later poll can succeed.
C19_RecoveryStillPending ==
  (active /\ Count("failure") + Count("infoFail") > 0) => Len(requests) + Len(timers) > 0

\* C20: a batch handled while active reaches every listener registered
\* before it and no other, and registering a listener keeps the listeners
\* registered before it in their places.
C20_LateListenerGetsLaterBatches ==
  [][ /\ (active /\ Step("success")) =>
           \A k \in 1 .. Len(listeners) :
             \E n \in 1 .. Len(InvokedBy(New)) : InvokedBy(New)[n] = k
      /\ \A n \in 1 .. Len(InvokedBy(New)) : InvokedBy(New)[n] <= Len(listeners)
      /\ Len(listeners') >= Len(listeners)
      /\ SubSeq(listeners', 1, Len(listeners)) = listeners ]_vars

\* the requests in flight that the code of subscription s issued
InFlightOf(p, s) == Cardinality({i \in 1 .. Len(p.flight) : p.flight[i].issuer = s})

\* C17: with two subscriptions, every request in flight is answered by the
\* handlers of the subscription that issued it, and a step on one
\* subscription (stop, onChange, a completion of one of its requests, one of
\* its timers) leaves the other's cursor, active flag, retry delay,
\* listeners and number of requests in flight as they were.
C17_SubscriptionsIsolated ==
  [][ /\ \A i \in 1 .. Len(pair'.flight) :
           pair'.flight[i].handler = pair'.flight[i].issuer
      /\ \A s \in Subs :
           pair'.last.sub = s =>
             /\ pair'.sub[3 - s] = pair.sub[3 - s]
             /\ InFlightOf(pair', 3 - s) = InFlightOf(pair, 3 - s) ]_vars

\* the statement of C17 for two subscriptions that were given two options
\* objects, which holds
C17_IsolatedWithOwnOptions ==
  [][ ~pair.shared =>
        /\ \A i \in 1 .. Len(pair'.flight) :
             pair'.flight[i].handler = pair'.flight[i].issuer
        /\ \A s \in Subs :
             pair'.last.sub = s =>
               /\ pair'.sub[3 - s] = pair.sub[3 - s]
               /\ InFlightOf(pair', 3 - s) = InFlightOf(pair, 3 - s) ]_vars

\* C28: when a listener calls stop() while a batch is delivered, the step
\* that delivers the batch issues no next poll.
C28_StopInListenerEndsPolling ==
  [][ (Step("success") /\ \E n \in 1 .. Len(New) : New[n].ev = "stop") =>
        /\ \A n \in 1 .. Len(New) : New[n].ev # "poll"
        /\ Len(requests') = Len(requests) - 1 ]_vars

\* C29: when a listener throws while a batch is delivered, every listener
\* registered after it is still invoked with that batch and the step still
\* issues the next poll.
C29_ThrowingListenerHarmless ==
  [][ \A n \in 1 .. Len(New) :
        New[n].ev = "throw" =>
          /\ \A k \in New[n].a + 1 .. Len(listeners) :
               \E m \in n + 1 .. Len(New) : New[m] = Ev("invoke", k, New[1].a)
          /\ New[Len(New)].ev = "poll" ]_vars

\* C30: when a successful reply reports its cursor under another field than
\* last_seq, the cursor of the subscription takes the reported value and the
\* next poll carries it.
C30_CursorFoundGenerically ==
  [][ (Step("success") /\ Len(New) > 1 /\ New[2].ev = "renamed") =>
        /\ since' = New[2].a
        /\ New[Len(New)].ev = "poll" => New[Len(New)].a = New[2].a ]_vars

(* --------------------- reading a query string -------------------------- *)

\* the pieces of a string between the occurrences of sep; cur is the piece
\* being read
Split(cs, sep, cur) ==
  LET str == cur \o cs
      at == SelectSeq([i \in 1 .. Len(str) |-> i], LAMBDA i : str[i] = sep)
      from(k) == IF k = 1 THEN 1 ELSE at[k - 1] + 1
      to(k) == IF k > Len(at) THEN Len(str) ELSE at[k] - 1
  IN [k \in 1 .. Len(at) + 1 |-> SubSeq(str, from(k), to(k))]

\* the name=value entries of a query string, as the server reads them
QueryEntries(q) ==
  IF q = <<>> THEN <<>>
  ELSE LET parts == Split(Tail(q), "&", <<>>)
       IN [i \in 1 .. Len(parts) |->
             LET nv == Split(parts[i], "=", <<>>)
             IN Entry(nv[1], IF Len(nv) > 1 THEN nv[2] ELSE <<>>)]

\* the query string has exactly one entry named n, and its value is v
Carries(q, n, v) ==
  LET es == QueryEntries(q)
  IN /\ Cardinality({i \in 1 .. Len(es) : es[i].name = n}) = 1
     /\ \A i \in 1 .. Len(es) : es[i].name = n => es[i].value = v

\* the heartbeat a poll should ask for: the caller's, or 10 seconds
HeartbeatOf(given) ==
  IF Has(given, nHeartbeat) THEN Get(given, nHeartbeat).s ELSE Digits(10 * 1000)

\* C21: the query string of every poll carries feed=longpoll, since=<the
\* cursor> and heartbeat=<the caller's heartbeat, or 10000>, whatever feed or
\* since the caller put into the options object, and has no success or error
\* entry.
C21_PollQueryString ==
  call.query # NoQuery =>
    /\ call.query[1] = "?"
    /\ Carries(call.query, nFeed, longpoll)
    /\ Carries(call.query, nSince, CursorValue(call.since).s)
    /\ Carries(call.query, nHeartbeat, HeartbeatOf(call.given))
    /\ \A i \in 1 .. Len(QueryEntries(call.query)) :
         QueryEntries(call.query)[i].name \notin {nSuccess, nError}

\* the statement of C21 for a cursor that is not undefined, which holds
C21_QueryStringOfDefinedCursor ==
  (call.query # NoQuery /\ call.since # Undefined) => C21_PollQueryString

(* -------------------- reading a completed call ------------------------- *)

\* the invocations of the handlers hs that the completed call made
Invoked(hs) == SelectSeq(call.calls, LAMBDA c : c.handler \in hs)

\* the reply of the completed call is a success: the body decodes and the
\* status is the one the operation declared
ReplyIsSuccess == call.reply.parses /\ call.reply.status = call.successStatus

\* what the error handler is to be given: status code, tag, reason and
\* elapsed time
FailureArgs ==
  {<<"status", tag, reason, "reqDuration">> :
     tag \in {"resp.error", "errorMessage"}, reason \in {"resp.reason", "no response"}}

\* C24: a call of ajax with a success and an error handler makes one request
\* and invokes exactly one of the two, once: success with the decoded body
\* and the elapsed time if the body decodes and the status is the declared
\* one, otherwise error with status, tag, reason and elapsed time.
C24_ExactlyOneHandlerOnce ==
  (call.stage = "done" /\ call.o.success /\ call.o.error) =>
    /\ call.sent = 1
    /\ Len(Invoked({"success", "error"})) = 1
    /\ IF ReplyIsSuccess
         THEN Invoked({"success", "error"})[1]
                = Invocation("success", <<"resp", "reqDuration">>, call.reply.body)
         ELSE /\ Invoked({"success", "error"})[1].handler = "error"
              /\ Invoked({"success", "error"})[1].args \in FailureArgs

\* the statement of C24 without the arguments the error handler is given,
\* which holds
C24_OneHandlerWhateverItIsGiven ==
  (call.stage = "done" /\ call.o.success /\ call.o.error) =>
    /\ call.sent = 1
    /\ ~call.threw
    /\ Len(Invoked({"success", "error"})) = 1
    /\ Invoked({"success", "error"})[1].handler = "success" <=> ReplyIsSuccess

\* C25: a reply with the declared status whose body does not decode is a
\* failure: the error handler is invoked once if there is one (the call
\* throws if there is none); success and beforeSuccess are not invoked.
C25_UndecodableBodyIsFailure ==
  (call.stage = "done" /\ ~call.reply.parses /\ call.reply.status = call.successStatus) =>
    /\ Invoked({"success", "beforeSuccess"}) = <<>>
    /\ call.o.error => (Len(Invoked({"error"})) = 1 /\ ~call.threw)
    /\ ~call.o.error => call.threw

\* C25 witness: a call with all handlers got the declared status with a body
\* that does not decode, and its error handler ran
C25_Witness ==
  /\ call.stage = "done"
  /\ ~call.reply.parses
  /\ call.reply.status = call.successStatus
  /\ call.o.success /\ call.o.beforeSuccess /\ call.o.error
  /\ Len(Invoked({"error"})) = 1

\* C26: when the request of a stateless operation fails (the body does not
\* decode or the status is not the declared one) and the caller gave no
\* error handler, complete throws and the success handler is not invoked.
C26_FailureWithoutHandlerThrows ==
  (call.stage = "done" /\ ~call.o.error /\ ~ReplyIsSuccess) =>
    /\ call.threw
    /\ Invoked({"success", "beforeSuccess", "error"}) = <<>>

\* C26 witness: a call of create with a success handler and no error handler
\* got a decodable reply with another status than 201, and threw
C26_Witness ==
  /\ call.stage = "done"
  /\ call.op = "create"
  /\ call.o.success /\ ~call.o.error
  /\ call.reply.parses /\ call.reply.status # call.successStatus
  /\ call.threw

\* C27: bulkSave and bulkRemove issue one request; when it is answered with
\* 201 and the array of results, the success handler is invoked once with
\* that array as it is (one entry for each document given, in their order,
\* whatever the entries say), the error handler is not invoked and nothing
\* is thrown.
C27_BulkResultsPassedThrough ==
  (call.stage = "done" /\ call.op \in BulkOps) =>
    /\ call.sent = 1
    /\ call.successStatus = 201
    /\ (ReplyIsSuccess /\ call.o.success) =>
         /\ Invoked({"success"}) = <<Invocation("success", <<"resp", "reqDuration">>, call.reply.body)>>
         /\ Len(Invoked({"success"})[1].payload) = Len(call.given)
         /\ \A i \in 1 .. Len(call.given) :
              Invoked({"success"})[1].payload[i].id = call.given[i].id
         /\ Invoked({"error"}) = <<>>
         /\ ~call.threw

\* C27 witness: a bulk operation on two documents was answered with 201, a
\* conflict for the first and ok for the second, and its success handler ran
C27_Witness ==
  /\ call.stage = "done"
  /\ call.op \in BulkOps
  /\ Len(call.given) = 2
  /\ ReplyIsSuccess
  /\ Len(Invoked({"success"})) = 1
  /\ Invoked({"success"})[1].payload[1].result = "conflict"
  /\ Invoked({"success"})[1].payload[2].result = "ok"

(* ---------------------- reading a newUUID step ------------------------- *)

\* the current step is a call of newUUID
UuidStep == call'.calls = call.calls + 1

\* the reply of the current step's request is a failure: the body does not
\* decode or the status is not 200
FetchFails == ~call'.reply.parses \/ call'.reply.status # successStatus

\* C22: newUUID makes a request exactly when the cache is empty; the request
\* asks for cacheNum identifiers, 1 when cacheNum is omitted, and the list
\* returned replaces the cache; the call then returns the first identifier
\* of the cache and removes it.  With a cache that is not empty no request
\* is made, whatever cacheNum is.
C22_FetchOnlyOnEmptyCache ==
  [][ UuidStep =>
        /\ call'.fetched <=> (uuidCache = <<>>)
        /\ call'.fetches = call.fetches + (IF uuidCache = <<>> THEN 1 ELSE 0)
        /\ call'.fetched =>
             call'.count = (IF call'.cacheNum = Undefined THEN 1 ELSE call'.cacheNum)
        /\ (call'.fetched /\ ~FetchFails) =>
             /\ Len(call'.reply.body) = call'.count
             /\ call'.returned = Head(call'.reply.body)
             /\ uuidCache' = Tail(call'.reply.body)
        /\ ~call'.fetched =>
             /\ call'.returned = Head(uuidCache)
             /\ uuidCache' = Tail(uuidCache) ]_vars

\* C22 witness: a call that passed cacheNum 2 found an identifier in the
\* cache and made no request
C22_Witness ==
  /\ call.op = "newUUID"
  /\ call.cacheNum = 2
  /\ ~call.fetched
  /\ call.fetches = 1
  /\ call.returned = 2

RECURSIVE Pow2(_)
Pow2(k) == IF k = 0 THEN 1 ELSE 2 * Pow2(k - 1)

\* the failed polls handled while active since the last successful poll, or
\* since the subscription was created: options.error recorded a retry timer
\* right after each of them
ActiveFailuresSinceSuccess ==
  Cardinality({i \in LogIdx :
                 /\ log[i].ev = "failure"
                 /\ i < Len(log)
                 /\ log[i + 1].ev = "timer"
                 /\ \A k \in LogIdx : k > i => log[k].ev # "success"})

\* C31: the retry delay is 100 * 2^k ms, with k the number of failed polls
\* handled while active since the last successful poll or since the
\* subscription was created; it is never below 100 ms, and a failure handled
\* after stop(), which is not counted in k, leaves it as it is.
C31_DelayIsBaseTimesPowerOfTwo ==
  /\ timeout = 100 * Pow2(ActiveFailuresSinceSuccess)
  /\ timeout >= 100

\* C31 witness: two polls failed while active, the third after stop(), and
\* the delay is 400 ms
C31_Witness ==
  /\ ~active
  /\ timeout = 400
  /\ Count("failure") = 3
  /\ Count("timer") = 2
  /\ log[Len(log)].ev = "failure"

(* ----------------------------- after stop ------------------------------ *)

\* the index of the first stop() in the history
FirstStop == CHOOSE i \in LogIdx : log[i].ev = "stop" /\ \A k \in 1 .. i - 1 : log[k].ev # "stop"

\* the events of the kinds es that follow the first stop()
AfterStop(es) == {j \in LogIdx : j > FirstStop /\ log[j].ev \in es}

\* C32, the part a finite run refutes: after the first call of stop() at most
\* one completion of a request of the subscription (a poll or the metadata
\* query, answered with success or failure) and at most one firing of a
\* retry timer are processed.
C32_AtMostOneCompletionAfterStop ==
  Count("stop") > 0 =>
    /\ Cardinality(AfterStop({"success", "failure", "infoOk", "infoFail"})) <= 1
    /\ Cardinality(AfterStop({"fire"})) <= 1

(* ------------------------- no listener yet ----------------------------- *)

\* C33: a successful poll handled while active with no listener registered
\* sets the cursor to the last_seq of the reply and issues the next poll with
\* it, and invokes nobody; listeners are invoked only in the step that
\* handles a reply, with that reply's batch, and only those registered when
\* the step begins, so a batch is never delivered to a listener registered
\* after it.
C33_EmptyListenerSetStillPolls ==
  [][ /\ (active /\ Step("success") /\ listeners = <<>>) =>
           /\ since' = New[1].a
           /\ New[Len(New)] = Ev("poll", since', 0)
           /\ Len(requests') = Len(requests)
           /\ requests'[Len(requests')].since = since'
           /\ \A n \in 1 .. Len(New) : New[n].ev # "invoke"
      /\ \A n \in 1 .. Len(New) :
           New[n].ev = "invoke" =>
             /\ New[1].ev = "success"
             /\ New[n].b = New[1].a
             /\ New[n].a <= Len(listeners) ]_vars

\* C33 witness: a batch was handled with no listener registered, a listener
\* was registered after it and has been invoked with a later batch
C33_Witness ==
  \E i, j \in LogIdx :
    /\ i < j
    /\ log[i].ev = "success"
    /\ log[i + 1].ev = "poll"
    /\ log[j].ev = "invoke"
    /\ Len(listeners) > 0

(* ------------------------ the identifier queue ------------------------- *)

\* the identifiers handed to callers so far: the server hands out 1, 2, ...
\* and the cache holds those not yet returned
Consumed == call.served - Len(uuidCache)

\* C34: identifiers are returned in the order the server handed them out,
\* each at most once, and the cache holds the ones not yet returned in that
\* order; when every call so far passed the same batch count n >= 1 and no
\* request failed, m calls have made ceil(m / n) requests.
C34_FifoAndFetchCount ==
  [][ UuidStep =>
        /\ ~call'.threw => call'.returned = Consumed + 1
        /\ uuidCache' = [i \in 1 .. Len(uuidCache') |-> call'.served - Len(uuidCache') + i]
        /\ \A n \in 1 .. MaxCacheNum :
             (call'.counts = {n} /\ call'.failed = 0) =>
               call'.fetches = (call'.calls + n - 1) \div n ]_vars

\* C34 witness: four calls with batch count 2 made two requests and returned
\* the identifiers 1 to 4
C34_Witness ==
  /\ call.calls = 4
  /\ call.counts = {2}
  /\ call.failed = 0
  /\ call.fetches = 2
  /\ call.returned = 4
  /\ uuidCache = <<>>

(* --------------------------- one request ------------------------------- *)

\* C35: a call of info, allDbs, activeTasks, create, drop, compact,
\* viewCleanup, removeDoc, bulkSave or bulkRemove makes one request when it
\* is made, and the step that handles the reply, a failure included, ends
\* the call without another request.
C35_OneRequestNoRetry ==
  [][ /\ call.stage = "called" => (call'.stage = "sent" /\ call'.sent = 1)
      /\ call.stage = "sent" => (call'.stage = "done" /\ call'.sent = 1)
      /\ call.stage = "done" => call'.sent = call.sent ]_vars

\* C35 witness: a removeDoc whose request failed has ended after one request
C35_Witness ==
  /\ call.op = "removeDoc"
  /\ call.stage = "done"
  /\ ~ReplyIsSuccess
  /\ call.sent = 1

(* --------------------------- bulkRemove -------------------------------- *)

\* C36: the request bulkRemove sends carries the documents it was given, as
\* many and in the same order, each with the _id and _rev it had and with
\* _deleted true; the caller's own documents are the ones marked.
C36_EveryDocumentMarked ==
  [][ (call.op = "bulkRemove" /\ call.stage = "called") =>
        /\ call'.stage = "sent"
        /\ Len(call'.data) = Len(call.docs)
        /\ \A i \in 1 .. Len(call.docs) :
             /\ call'.data[i].deleted = TRUE
             /\ call'.data[i].id = call.docs[i].id
             /\ call'.data[i].rev = call.docs[i].rev
        /\ call'.docs = call'.data ]_vars

\* C36 witness: a bulkRemove of two documents has been sent, both marked
C36_Witness ==
  /\ call.op = "bulkRemove"
  /\ call.stage = "sent"
  /\ Len(call.data) = 2
  /\ call.data[1].id = 2
  /\ call.data[1].deleted /\ call.data[2].deleted

(* --------------------- encoding of ids and options --------------------- *)

\* the number of segments of a document id
MaxSegments == 3

nDesign == <<"_", "d", "e", "s", "i", "g", "n">>

nRev == <<"r", "e", "v">>

\* the segments a document id is made of: none holds a "/"
Segments ==
  {nDesign, <<"_", "d", "e", "s", "i", "g">>, nDesign \o <<"s">>, <<"a">>, <<"b", "?", "%">>, <<>>}

\* parts.join('/')
RECURSIVE JoinSlash(_)
JoinSlash(parts) ==
  IF parts = <<>> THEN <<>>
  ELSE IF Len(parts) = 1 THEN parts[1]
  ELSE (Head(parts) \o <<"/">>) \o JoinSlash(Tail(parts))

\* the lists of segments of the ids a caller may pass
SegmentLists == UNION {[1 .. n -> Segments] : n \in 1 .. MaxSegments}

\* an encoding that treats every id alike
encodeDocIdWhole(docID) == encodeURIComponent(docID)

\* encodeDocId(docID)
encodeDocId(docID) ==
  LET parts == Split(docID, "/", <<>>)
  IN IF parts[1] = nDesign
       THEN (nDesign \o <<"/">>) \o encodeURIComponent(JoinSlash(Tail(parts)))
       ELSE encodeURIComponent(docID)

\* what a caller may put into an options object given to encodeOptions
KeyValues ==
  {Str(<<"a", "\"", "b">>), Num(5), Arr(<<Str(<<"a", "/">>), Num(1)>>), Undef}

OptKeys == {<<>>} \cup {<<Entry(nKey, v)>> : v \in KeyValues}

OptStartkeys == {<<>>, <<Entry(nStartkey, Str(<<"a", "&", "b">>))>>}

OptEndkeys == {<<>>, <<Entry(nEndkey, Arr(<<Str(<<"a">>), Str(<<"b">>)>>))>>}

OptOthers ==
  {<<>>,
   <<Entry(nRev, Undef)>>,
   <<Entry(nRev, Str(<<"1", "-", "a">>))>>,
   <<Entry(nFilter, Str(<<"a", "/", "b", "&", "c">>))>>,
   <<Entry(nFilter, Arr(<<Str(<<"a">>), Num(1)>>))>>}

OptHandlers ==
  {<<>>,
   <<Entry(nSuccess, Fun)>>,
   <<Entry(nError, Fun), Entry(nAjaxStart, Fun)>>,
   <<Entry(nBeforeSuccess, Fun), Entry(nSuccess, Fun), Entry(nError, Fun)>>}

EncodedOptions ==
  {((k \o h) \o (s \o o)) \o e :
     k \in OptKeys, h \in OptHandlers, s \in OptStartkeys, o \in OptOthers, e \in OptEndkeys}

\* a call of encodeDocId or of encodeOptions about to run
InitEncode ==
  /\ since = Undefined
  /\ active = FALSE
  /\ timeout = BaseTimeout
  /\ listeners = <<>>
  /\ requests = <<>>
  /\ timers = <<>>
  /\ log = <<>>
  /\ pair = NoPair
  /\ uuidCache = <<>>
  /\ \/ \E segs \in SegmentLists :
          call = [op |-> "encodeDocId", segments |-> segs, docID |-> JoinSlash(segs),
                  options |-> <<>>, result |-> NoQuery]
     \/ \E o \in EncodedOptions :
          call = [op |-> "encodeOptions", segments |-> <<>>, docID |-> <<>>,
                  options |-> o, result |-> NoQuery]

\* encodeDocId(doc._id), as openDoc, saveDoc and removeDoc call it
callEncodeDocId ==
  /\ call.op = "encodeDocId"
  /\ call.result = NoQuery
  /\ call' = [call EXCEPT !.result = encodeDocId(call.docID)]
  /\ UNCHANGED <<single, pair, uuidCache>>

\* encodeOptions(options), as the operations that build a URL call it
callEncodeOptions ==
  /\ call.op = "encodeOptions"
  /\ call.result = NoQuery
  /\ call' = [call EXCEPT !.result = encodeOptions(call.options)]
  /\ UNCHANGED <<single, pair, uuidCache>>

NextEncode ==
  \/ callEncodeDocId
  \/ callEncodeOptions

SpecEncode == InitEncode /\ [][NextEncode]_vars

\* C37: the result of encodeDocId for an id whose first segment is _design
\* is "_design/" followed by the percent-encoding of the other segments
\* joined by "/", which holds no "/" of its own; for any other id it is the
\* percent-encoding of the whole id.
C37_DesignPrefixKept ==
  (call.op = "encodeDocId" /\ call.result # NoQuery) =>
    IF call.segments[1] = nDesign
      THEN /\ call.result =
                (nDesign \o <<"/">>) \o encodeURIComponent(JoinSlash(Tail(call.segments)))
           /\ \A i \in 1 .. Len(call.result) : call.result[i] = "/" => i = Len(nDesign) + 1
      ELSE /\ call.result = encodeURIComponent(call.docID)
           /\ \A i \in 1 .. Len(call.result) : call.result[i] # "/"

\* C37 witness: the id _design/a/b?% has been encoded to _design/a%2Fb%3F%25
C37_Witness ==
  /\ call.op = "encodeDocId"
  /\ call.segments = <<nDesign, <<"a">>, <<"b", "?", "%">> >>
  /\ call.result =
       nDesign \o <<"/", "a", "%", "2", "F", "b", "%", "3", "F", "%", "2", "5">>

\* the entries of an options object that are not handlers, in order
Emitted(options) ==
  SelectSeq(options, LAMBDA e : e.name \notin {nError, nSuccess, nBeforeSuccess, nAjaxStart})

C38_HandlersOnlyGiveNothing ==
  (/\ call.op = "encodeOptions"
   /\ call.result # NoQuery
   /\ \A i \in 1 .. Len(call.options) : call.options[i].value = Fun) => call.result = <<>>
====
